---- MODULE Spec2Model ----
(***************************************************************************)
(* OTP lifecycle engine of lf-supabase: the send-otp edge function         *)
(* (src/unnamed/part_001), the verify-otp edge function                    *)
(* (src/supabase/functions/verify-otp/index.ts) and the otp_codes table    *)
(* (src/unnamed/part_000).                                                 *)
(*                                                                         *)
(* Every request is a process that moves from one awaited remote call to   *)
(* the next; each remote call (a PostgREST query, an auth-admin call, the  *)
(* Resend call) is one atomic step.  The remote services are the           *)
(* environment: a call whose error the handler destructures may fail, and  *)
(* the failure is an input of the step.  The three deletes of verify-otp   *)
(* whose result the handler discards are taken to succeed.                 *)
(* Requests are POST requests whose fields are all present; the column    *)
(* created_at is written and never read, and is left out of the rows.      *)
(***************************************************************************)
EXTENDS Integers, FiniteSets, TLC

\* ---------------------------------------------------------------- bounds
NProcs == 2        \* request slots (concurrent racers)
MaxTime == 3       \* SpecSeq, SpecPurpose: the clock stops advancing here
MaxRaceTime == 1   \* SpecQuotaRace, SpecRace: likewise
MaxIssued == 4     \* SpecSeq, SpecPurpose: issue requests stop once this many
                   \* ids are used
MaxQuotaRace == 5  \* SpecQuotaRace: likewise
MaxRace == 1       \* SpecRace: likewise
NCodes == 2        \* size of the slice of the code space that is drawn from
MaxRetryTime == 2  \* SpecRetry: the clock stops advancing here
MaxRetry == 2      \* SpecRetry: issue requests stop once this many ids are used

\* ------------------------------------------------------ program constants
OTP_EXPIRATION_TIME == 2   \* the TTL of a code, in ticks of the clock
MaxActive == 3             \* the quota of the rate limit
MinCode == 1000            \* smallest four-digit code

Procs == 1..NProcs
Emails == {"a@x.com"}
Purposes == {"signup", "reset"}
Codes == MinCode..(MinCode + NCodes - 1)

VARIABLES
    clock,       \* Date.now()
    otp_codes,   \* the table: rows [id, email, code_hash, purpose, expires_at]
    nextId,      \* the table's BIGSERIAL
    users,       \* emails that have an account at the auth provider
    pc,          \* where each request is
    req,         \* each request's locals
    obs,         \* what each request has done so far (observation only)
    raced        \* a request passed the quota check while another, past it
                 \* too, had not inserted yet (observation only)

vars == <<clock, otp_codes, nextId, users, pc, req, obs, raced>>

\* hashString: SHA-256 of the code, hex encoded.  Deterministic and free of
\* collisions on the code space; never the code itself.
hashString(otp) == (otp * 7919) % 65521

NoReq == [op |-> "none", email |-> "", purpose |-> "", code |-> 0,
          now |-> 0, expiresAt |-> 0, res |-> ""]
NoObs == [pre |-> {}, counted |-> 0, inserted |-> 0, mailed |-> FALSE,
          provider |-> FALSE, matched |-> 0, failed |-> FALSE, dbFailed |-> FALSE]

\* data of a query that returned no row
NoRow == [id |-> 0, email |-> "", code_hash |-> 0, purpose |-> "", expires_at |-> 0]

\* ----------------------------------------------------------- the Store
RowsOf(email, purpose) ==
    {r \in otp_codes : r.email = email /\ r.purpose = purpose}

\* .lt("expires_at", now): the rows the Issuer's cleanup deletes
ExpiredLt(email, purpose, now) ==
    {r \in RowsOf(email, purpose) : r.expires_at < now}

\* mutant: the quota query written with .lt, the comparison of the cleanup
CountedGte_Lt(email, purpose, now) ==
    {r \in RowsOf(email, purpose) : r.expires_at < now}

\* .gte("expires_at", now): the rows the Issuer's quota query returns
CountedGte(email, purpose, now) ==
    {r \in RowsOf(email, purpose) : r.expires_at >= now}

\* mutant: the lookup written with .gte, the comparison of the quota query
ActiveGt_Gte(email, purpose, now) ==
    {r \in RowsOf(email, purpose) : r.expires_at >= now}

\* .gt("expires_at", now): the rows the Verifier's lookup ranges over
ActiveGt(email, purpose, now) ==
    {r \in RowsOf(email, purpose) : r.expires_at > now}

\* mutant: a mismatch locks the pair out: the handler deletes its rows
VerifyLookup_Lockout(p, selectError, data) ==
    /\ pc[p] = "v_lookup"
    /\ data \in {r \in otp_codes : r.email = req[p].email /\ r.purpose = req[p].purpose
                      /\ r.expires_at > req[p].now
                      /\ \A s \in otp_codes :
                            (s.email = r.email /\ s.purpose = r.purpose
                             /\ s.expires_at > req[p].now) => s.expires_at <= r.expires_at}
                 \cup {[id |-> 0, email |-> "", code_hash |-> 0, purpose |-> "",
                        expires_at |-> 0]}
    /\ (data.id = 0) <=>
          (selectError \/ ~\E r \in otp_codes : r.email = req[p].email
                               /\ r.purpose = req[p].purpose /\ r.expires_at > req[p].now)
    /\ IF data.id = 0
       THEN /\ pc' = [pc EXCEPT ![p] = "v_del_miss"]
            /\ obs' = [obs EXCEPT ![p].failed = @ \/ selectError]
            /\ UNCHANGED <<req, otp_codes>>
       ELSE IF (req[p].code * 7919) % 65521 # data.code_hash
       THEN /\ pc' = [pc EXCEPT ![p] = "done"]
            /\ req' = [req EXCEPT ![p].res = "InvalidCode"]
            /\ otp_codes' = {r \in otp_codes :
                                ~(r.email = req[p].email /\ r.purpose = req[p].purpose)}
            /\ UNCHANGED obs
       ELSE /\ obs' = [obs EXCEPT ![p].matched = data.id]
            /\ pc' = [pc EXCEPT ![p] = IF req[p].purpose = "signup" THEN "v_create"
                                       ELSE IF req[p].purpose = "reset" THEN "v_list"
                                       ELSE "done"]
            /\ req' = [req EXCEPT ![p].res =
                          IF req[p].purpose \in {"signup", "reset"} THEN ""
                          ELSE "InvalidPurpose"]
            /\ UNCHANGED otp_codes
    /\ UNCHANGED <<clock, nextId, users, raced>>

\* mutant: the lookup without order, any active row
LatestActive_Unordered(email, purpose, now) ==
    {r \in otp_codes : r.email = email /\ r.purpose = purpose /\ r.expires_at > now}

\* mutant: the lookup ordered with ascending: true
LatestActive_Ascending(email, purpose, now) ==
    {r \in ActiveGt(email, purpose, now) :
        \A s \in ActiveGt(email, purpose, now) : s.expires_at >= r.expires_at}

\* .order("expires_at", desc).limit(1): a row of greatest expires_at; rows
\* that tie are returned in an order the query does not fix
LatestActive(email, purpose, now) ==
    {r \in ActiveGt(email, purpose, now) :
        \A s \in ActiveGt(email, purpose, now) : s.expires_at <= r.expires_at}

\* mutant: the delete does what its comment says, "clean up expired OTPs"
DeleteAll_Expired(email, purpose) ==
    otp_codes \ {r \in RowsOf(email, purpose) : r.expires_at < clock}

\* .from("otp_codes").delete().eq("email", ..).eq("purpose", ..)
DeleteAll(email, purpose) == otp_codes \ RowsOf(email, purpose)

\* mutant: the rate limit off by one
OverQuota_OffByOne(activeOtps) == Cardinality(activeOtps) > MaxActive

\* mutant: the rate limit reads a property the rows do not have
OverQuota_Undefined(activeOtps) == FALSE

\* activeOtps.length >= 3: the rate limit
OverQuota(activeOtps) == Cardinality(activeOtps) >= MaxActive

\* listUsers({filter: email=eq.<email>}): the accounts with that email
UsersFound(email) == users \cap {email}

\* --------------------------------------------------------------- helpers
Finish(p, result) ==
    /\ pc' = [pc EXCEPT ![p] = "done"]
    /\ req' = [req EXCEPT ![p].res = result]

Goto(p, label) == pc' = [pc EXCEPT ![p] = label]

\* the observation that a remote call of request p answered with an error
Failed(o, error) == [o EXCEPT !.failed = @ \/ error]

Init ==
    /\ clock = 0
    /\ otp_codes = {}
    /\ nextId = 1
    /\ users \in SUBSET Emails
    /\ pc = [p \in Procs |-> "idle"]
    /\ req = [p \in Procs |-> NoReq]
    /\ obs = [p \in Procs |-> NoObs]
    /\ raced = FALSE

\* ------------------------------------------------------ send-otp (issue)
\* lines 86-106: parse, validate, and for a purpose other than signup take now
IssueBegin(p, email, purpose) ==
    /\ pc[p] = "idle"
    /\ obs' = [obs EXCEPT ![p].pre = otp_codes]
    /\ pc' = [pc EXCEPT ![p] = IF purpose = "signup" THEN "i_list" ELSE "i_cleanup"]
    /\ req' = [req EXCEPT ![p] = [NoReq EXCEPT !.op = "issue",
                  !.email = email, !.purpose = purpose, !.now = clock]]
    /\ UNCHANGED <<clock, otp_codes, nextId, users, raced>>

\* lines 93-106: the signup precondition, then now
IssueListUsers(p, listError) ==
    /\ pc[p] = "i_list"
    /\ IF ~listError /\ UsersFound(req[p].email) # {}
       THEN Finish(p, "AlreadyExists")
       ELSE /\ pc' = [pc EXCEPT ![p] = "i_cleanup"]
            /\ req' = [req EXCEPT ![p].now = clock]
    /\ obs' = [obs EXCEPT ![p] = Failed(@, listError)]
    /\ UNCHANGED <<clock, otp_codes, nextId, users, raced>>

\* mutant: a failed cleanup aborts the request
IssueCleanup_Aborts(p, cleanupError) ==
    /\ pc[p] = "i_cleanup"
    /\ otp_codes' = IF cleanupError THEN otp_codes
                    ELSE {r \in otp_codes :
                            ~(r.email = req[p].email /\ r.purpose = req[p].purpose
                              /\ r.expires_at < req[p].now)}
    /\ pc' = [pc EXCEPT ![p] = IF cleanupError THEN "done" ELSE "i_count"]
    /\ req' = [req EXCEPT ![p].res = IF cleanupError THEN "StorageError" ELSE ""]
    /\ obs' = [obs EXCEPT ![p].failed = @ \/ cleanupError]
    /\ UNCHANGED <<clock, nextId, users, raced>>

\* lines 108-121: delete the expired rows of the pair; a failure is logged
IssueCleanup(p, cleanupError) ==
    /\ pc[p] = "i_cleanup"
    /\ otp_codes' = IF cleanupError THEN otp_codes
                    ELSE otp_codes \ ExpiredLt(req[p].email, req[p].purpose, req[p].now)
    /\ Goto(p, "i_count")
    /\ obs' = [obs EXCEPT ![p] = Failed(@, cleanupError)]
    /\ UNCHANGED <<clock, nextId, users, req, raced>>

\* lines 123-152: the quota query, the rate limit, then code and expiry
IssueCount(p, countError, code) ==
    /\ pc[p] = "i_count"
    /\ IF countError
       THEN /\ Finish(p, "StorageError")
            /\ obs' = [obs EXCEPT ![p] = Failed([@ EXCEPT !.dbFailed = TRUE], TRUE)]
            /\ UNCHANGED raced
       ELSE LET activeOtps == CountedGte(req[p].email, req[p].purpose, req[p].now)
            IN  /\ obs' = [obs EXCEPT ![p].counted = Cardinality(activeOtps)]
                /\ IF OverQuota(activeOtps)
                   THEN /\ Finish(p, "RateLimited")
                        /\ UNCHANGED raced
                   ELSE /\ pc' = [pc EXCEPT ![p] = "i_insert"]
                        /\ req' = [req EXCEPT ![p].code = code,
                                       ![p].expiresAt = clock + OTP_EXPIRATION_TIME]
                        /\ raced' = (raced \/ \E q \in Procs \ {p} :
                                         /\ pc[q] = "i_insert"
                                         /\ req[q].email = req[p].email
                                         /\ req[q].purpose = req[p].purpose)
    /\ UNCHANGED <<clock, otp_codes, nextId, users>>

\* lines 154-162: the insert
IssueInsert(p, dbError) ==
    /\ pc[p] = "i_insert"
    /\ IF dbError
       THEN /\ Finish(p, "StorageError")
            /\ obs' = [obs EXCEPT ![p] = Failed([@ EXCEPT !.dbFailed = TRUE], TRUE)]
            /\ UNCHANGED <<otp_codes, nextId>>
       ELSE /\ otp_codes' = otp_codes \cup
                  {[id |-> nextId, email |-> req[p].email,
                    code_hash |-> hashString(req[p].code),
                    purpose |-> req[p].purpose,
                    expires_at |-> req[p].expiresAt]}
            /\ nextId' = nextId + 1
            /\ obs' = [obs EXCEPT ![p].inserted = nextId]
            /\ Goto(p, "i_send")
            /\ UNCHANGED req
    /\ UNCHANGED <<clock, users, raced>>

\* mutant: a delivery failure rolls the insert back
IssueSendMail_Rollback(p, resOk) ==
    /\ pc[p] = "i_send"
    /\ obs' = [obs EXCEPT ![p].mailed = TRUE, ![p].failed = @ \/ ~resOk]
    /\ pc' = [pc EXCEPT ![p] = "done"]
    /\ req' = [req EXCEPT ![p].res = IF resOk THEN "Sent" ELSE "DeliveryError"]
    /\ otp_codes' = IF resOk THEN otp_codes
                    ELSE {r \in otp_codes : r.id # obs[p].inserted}
    /\ UNCHANGED <<clock, nextId, users, raced>>

\* lines 45-78, 164-166: sendMail, whose response is the handler's response
IssueSendMail(p, resOk) ==
    /\ pc[p] = "i_send"
    /\ obs' = [obs EXCEPT ![p] = Failed([@ EXCEPT !.mailed = TRUE], ~resOk)]
    /\ Finish(p, IF resOk THEN "Sent" ELSE "DeliveryError")
    /\ UNCHANGED <<clock, otp_codes, nextId, users, raced>>


\* -------------------------------------------------- verify-otp (verify)
\* lines 28-34: parse, validate, take now
VerifyBegin(p, email, purpose, code) ==
    /\ pc[p] = "idle"
    /\ obs' = [obs EXCEPT ![p].pre = otp_codes]
    /\ pc' = [pc EXCEPT ![p] = "v_lookup"]
    /\ req' = [req EXCEPT ![p] = [NoReq EXCEPT !.op = "verify", !.email = email,
                  !.purpose = purpose, !.code = code, !.now = clock]]
    /\ UNCHANGED <<clock, otp_codes, nextId, users, raced>>

\* lines 60-62, 82, 114-116: where a matched code goes
AfterMatch(purpose) ==
    IF purpose = "signup" THEN "v_create"
    ELSE IF purpose = "reset" THEN "v_list"
    ELSE "done"

\* lines 36-58: the lookup of the latest active row and the comparison.
\* .single() reports no row as an error, so data is null under any error.
VerifyLookup(p, selectError, data) ==
    /\ pc[p] = "v_lookup"
    /\ data \in LatestActive(req[p].email, req[p].purpose, req[p].now) \cup {NoRow}
    /\ (data = NoRow) <=>
          (selectError \/ LatestActive(req[p].email, req[p].purpose, req[p].now) = {})
    /\ IF data = NoRow
       THEN /\ Goto(p, "v_del_miss")
            /\ obs' = [obs EXCEPT ![p] = Failed(@, selectError)]
            /\ UNCHANGED req
       ELSE IF hashString(req[p].code) # data.code_hash
       THEN /\ Finish(p, "InvalidCode")
            /\ UNCHANGED obs
       ELSE /\ obs' = [obs EXCEPT ![p].matched = data.id]
            /\ pc' = [pc EXCEPT ![p] = AfterMatch(req[p].purpose)]
            /\ req' = [req EXCEPT ![p].res =
                          IF AfterMatch(req[p].purpose) = "done"
                          THEN "InvalidPurpose" ELSE ""]
    /\ UNCHANGED <<clock, otp_codes, nextId, users, raced>>

\* lines 48-51: no row was found: delete every row of the pair
VerifyDeleteMiss(p) ==
    /\ pc[p] = "v_del_miss"
    /\ otp_codes' = DeleteAll(req[p].email, req[p].purpose)
    /\ Finish(p, "InvalidOrExpired")
    /\ UNCHANGED <<clock, nextId, users, obs, raced>>

\* lines 64-73: createUser; the provider refuses an email that has an account
VerifyCreateUser(p, createError) ==
    /\ pc[p] = "v_create"
    /\ obs' = [obs EXCEPT ![p] = Failed([@ EXCEPT !.provider = TRUE], createError)]
    /\ IF createError \/ req[p].email \in users
       THEN /\ Finish(p, "ProviderError")
            /\ UNCHANGED users
       ELSE /\ users' = users \cup {req[p].email}
            /\ Goto(p, "v_signin")
            /\ UNCHANGED req
    /\ UNCHANGED <<clock, otp_codes, nextId, raced>>

\* mutant: the signup branch consumes the pair's rows as the reset branch does
VerifySignIn_Consumes(p, signInError) ==
    /\ pc[p] = "v_signin"
    /\ pc' = [pc EXCEPT ![p] = "done"]
    /\ req' = [req EXCEPT ![p].res = IF signInError THEN "ProviderError" ELSE "Success"]
    /\ obs' = [obs EXCEPT ![p].failed = @ \/ signInError]
    /\ otp_codes' = {r \in otp_codes :
                        ~(r.email = req[p].email /\ r.purpose = req[p].purpose)}
    /\ UNCHANGED <<clock, nextId, users, raced>>

\* lines 75-81, 118: sign in after signup; the row stays
VerifySignIn(p, signInError) ==
    /\ pc[p] = "v_signin"
    /\ Finish(p, IF signInError THEN "ProviderError" ELSE "Success")
    /\ obs' = [obs EXCEPT ![p] = Failed(@, signInError)]
    /\ UNCHANGED <<clock, otp_codes, nextId, users, raced>>

\* lines 83-88: find the account to reset
VerifyListUsers(p, listError) ==
    /\ pc[p] = "v_list"
    /\ obs' = [obs EXCEPT ![p] = Failed([@ EXCEPT !.provider = TRUE], listError)]
    /\ Goto(p, IF listError \/ UsersFound(req[p].email) = {}
               THEN "v_del_nouser" ELSE "v_update")
    /\ UNCHANGED <<clock, otp_codes, nextId, users, req, raced>>

\* lines 90-93: no account: delete every row of the pair
VerifyDeleteNoUser(p) ==
    /\ pc[p] = "v_del_nouser"
    /\ otp_codes' = DeleteAll(req[p].email, req[p].purpose)
    /\ Finish(p, "NotFound")
    /\ UNCHANGED <<clock, nextId, users, obs, raced>>

\* lines 98-102: updateUserById
VerifyUpdateUser(p, updateError) ==
    /\ pc[p] = "v_update"
    /\ IF updateError THEN Finish(p, "ProviderError")
       ELSE Goto(p, "v_signin_reset") /\ UNCHANGED req
    /\ obs' = [obs EXCEPT ![p] = Failed(@, updateError)]
    /\ UNCHANGED <<clock, otp_codes, nextId, users, raced>>

\* lines 104-108: sign in after the reset
VerifySignInReset(p, signInError) ==
    /\ pc[p] = "v_signin_reset"
    /\ IF signInError THEN Finish(p, "ProviderError")
       ELSE Goto(p, "v_del_ok") /\ UNCHANGED req
    /\ obs' = [obs EXCEPT ![p] = Failed(@, signInError)]
    /\ UNCHANGED <<clock, otp_codes, nextId, users, raced>>

\* lines 110-113, 118: delete every row of the pair, answer with the session
VerifyDeleteOk(p) ==
    /\ pc[p] = "v_del_ok"
    /\ otp_codes' = DeleteAll(req[p].email, req[p].purpose)
    /\ Finish(p, "Success")
    /\ UNCHANGED <<clock, nextId, users, obs, raced>>

\* ------------------------------------------------------------ environment
\* the response has left: the slot is free for the next request
Return(p) ==
    /\ pc[p] = "done"
    /\ pc' = [pc EXCEPT ![p] = "idle"]
    /\ req' = [req EXCEPT ![p] = NoReq]
    /\ obs' = [obs EXCEPT ![p] = NoObs]
    /\ UNCHANGED <<clock, otp_codes, nextId, users, raced>>

\* time passes
Tick ==
    /\ clock' = clock + 1
    /\ UNCHANGED <<otp_codes, nextId, users, pc, req, obs, raced>>

Quiet == \A q \in Procs : pc[q] = "idle"

\* one step of the request in slot p
Step(p) ==
    \/ \E b \in BOOLEAN : IssueListUsers(p, b)
    \/ \E b \in BOOLEAN : IssueCleanup(p, b)
    \/ \E b \in BOOLEAN, c \in Codes : IssueCount(p, b, c)
    \/ \E b \in BOOLEAN : IssueInsert(p, b)
    \/ \E b \in BOOLEAN : IssueSendMail(p, b)
    \/ \E b \in BOOLEAN, d \in otp_codes \cup {NoRow} : VerifyLookup(p, b, d)
    \/ VerifyDeleteMiss(p)
    \/ \E b \in BOOLEAN : VerifyCreateUser(p, b)
    \/ \E b \in BOOLEAN : VerifySignIn(p, b)
    \/ \E b \in BOOLEAN : VerifyListUsers(p, b)
    \/ VerifyDeleteNoUser(p)
    \/ \E b \in BOOLEAN : VerifyUpdateUser(p, b)
    \/ \E b \in BOOLEAN : VerifySignInReset(p, b)
    \/ VerifyDeleteOk(p)
    \/ Return(p)

\* SpecSeq: requests one at a time.  A request starts, and time passes, only
\* when no request is in flight; every request runs in slot 1.
NextSeq ==
    \/ \E e \in Emails, u \in Purposes :
          Quiet /\ nextId <= MaxIssued /\ IssueBegin(1, e, u)
    \/ \E e \in Emails, u \in Purposes, c \in Codes : Quiet /\ VerifyBegin(1, e, u, c)
    \/ Step(1)
    \/ Quiet /\ clock < MaxTime /\ Tick

SpecSeq == Init /\ [][NextSeq]_vars

\* The pair that racing requests are for
RaceEmail == "a@x.com"
RacePurpose == "reset"

\* SpecQuotaRace: issue requests for one pair in every slot, their Store calls
\* interleaved in any order, time passing at any moment.
NextQuotaRace ==
    \/ \E p \in Procs : nextId <= MaxQuotaRace /\ IssueBegin(p, RaceEmail, RacePurpose)
    \/ \E p \in Procs, b \in BOOLEAN : IssueCleanup(p, b)
    \/ \E p \in Procs, b \in BOOLEAN : IssueCount(p, b, MinCode)
    \/ \E p \in Procs, b \in BOOLEAN : IssueInsert(p, b)
    \/ \E p \in Procs, b \in BOOLEAN : IssueSendMail(p, b)
    \/ \E p \in Procs : Return(p)
    \/ clock < MaxRaceTime /\ Tick

SpecQuotaRace == Init /\ [][NextQuotaRace]_vars

\* SpecRace: issue and verify requests for one pair in every slot, their calls
\* interleaved in any order, time passing at any moment.
NextRace ==
    \/ \E p \in Procs : nextId <= MaxRace /\ IssueBegin(p, RaceEmail, RacePurpose)
    \/ \E p \in Procs, c \in Codes : VerifyBegin(p, RaceEmail, RacePurpose, c)
    \/ \E p \in Procs, b \in BOOLEAN : IssueCleanup(p, b)
    \/ \E p \in Procs, b \in BOOLEAN, c \in Codes : IssueCount(p, b, c)
    \/ \E p \in Procs, b \in BOOLEAN : IssueInsert(p, b)
    \/ \E p \in Procs, b \in BOOLEAN : IssueSendMail(p, b)
    \/ \E p \in Procs, b \in BOOLEAN, d \in otp_codes \cup {NoRow} : VerifyLookup(p, b, d)
    \/ \E p \in Procs : VerifyDeleteMiss(p)
    \/ \E p \in Procs, b \in BOOLEAN : VerifyListUsers(p, b)
    \/ \E p \in Procs : VerifyDeleteNoUser(p)
    \/ \E p \in Procs, b \in BOOLEAN : VerifyUpdateUser(p, b)
    \/ \E p \in Procs, b \in BOOLEAN : VerifySignInReset(p, b)
    \/ \E p \in Procs : VerifyDeleteOk(p)
    \/ \E p \in Procs : Return(p)
    \/ clock < MaxRaceTime /\ Tick

SpecRace == Init /\ [][NextRace]_vars

\* SpecRetry: requests one at a time, the response of the verify request in
\* slot 1 kept while the one request after it runs in slot 2 and until that
\* one is answered.
InFlight(p) == pc[p] \notin {"idle", "done"}

NextRetry ==
    \/ \E e \in Emails, u \in Purposes :
          Quiet /\ nextId <= MaxRetry /\ IssueBegin(1, e, u)
    \/ \E e \in Emails, u \in Purposes, c \in Codes : Quiet /\ VerifyBegin(1, e, u, c)
    \/ \E c \in Codes :
          /\ pc[1] = "done" /\ req[1].op = "verify"
          /\ VerifyBegin(2, req[1].email, req[1].purpose, c)
    \/ \E p \in Procs :
          /\ \A q \in Procs \ {p} : ~InFlight(q)
          /\ (p # 1 /\ pc[p] = "done") => pc[1] = "idle"
          /\ Step(p)
    \/ (\A q \in Procs : ~InFlight(q)) /\ clock < MaxRetryTime /\ Tick

SpecRetry == Init /\ [][NextRetry]_vars

\* A purpose that is neither signup nor reset
OtherPurpose == "bogus"

\* SpecPurpose: requests whose purpose is neither signup nor reset, one at a
\* time.
NextPurpose ==
    \/ \E e \in Emails : Quiet /\ nextId <= MaxIssued /\ IssueBegin(1, e, OtherPurpose)
    \/ \E e \in Emails, c \in Codes : Quiet /\ VerifyBegin(1, e, OtherPurpose, c)
    \/ \E b \in BOOLEAN : IssueCleanup(1, b)
    \/ \E b \in BOOLEAN, c \in Codes : IssueCount(1, b, c)
    \/ \E b \in BOOLEAN : IssueInsert(1, b)
    \/ \E b \in BOOLEAN : IssueSendMail(1, b)
    \/ \E b \in BOOLEAN, d \in otp_codes \cup {NoRow} : VerifyLookup(1, b, d)
    \/ VerifyDeleteMiss(1)
    \/ Return(1)
    \/ Quiet /\ clock < MaxTime /\ Tick

SpecPurpose == Init /\ [][NextPurpose]_vars

\* ================================================================ claims
\* What the specification calls active: expiresAt strictly after t
IsActive(r, t) == r.expires_at > t

\* the rows of a pair that are active now
ActiveNow(email, purpose) ==
    {r \in otp_codes : r.email = email /\ r.purpose = purpose /\ IsActive(r, clock)}

\* the rows of request p's pair when p started, and those of them active then
PreRows(p) ==
    {r \in obs[p].pre : r.email = req[p].email /\ r.purpose = req[p].purpose}
PreActive(p) == {r \in PreRows(p) : IsActive(r, req[p].now)}

\* the most recent of them: greatest expiresAt
PreLatest(p) ==
    {r \in PreActive(p) : \A s \in PreActive(p) : s.expires_at <= r.expires_at}

DoneIssue(p) == pc[p] = "done" /\ req[p].op = "issue"
DoneVerify(p) == pc[p] = "done" /\ req[p].op = "verify"

\* ---- C1 (SpecSeq)
\* C1: with requests processed one at a time, every pair has at most 3
\* active records in every reachable state.
C1_AtMostThreeActive ==
    \A e \in Emails, u \in Purposes : Cardinality(ActiveNow(e, u)) <= 3

\* a pair holds 3 active records after time has passed
C1_Witness ==
    \E e \in Emails, u \in Purposes :
        Cardinality(ActiveNow(e, u)) = 3 /\ clock > 0

\* ---- C2 (SpecSeq)
\* C2 as claimed: an issue evaluated with exactly 3 active records fails with
\* RateLimited, inserts nothing and sends nothing (read in the claim's favour:
\* of the requests none of whose remote calls failed).
C2_Original ==
    \A p \in Procs :
        (DoneIssue(p) /\ Cardinality(PreActive(p)) = 3 /\ ~obs[p].failed) =>
            /\ req[p].res = "RateLimited"
            /\ obs[p].inserted = 0
            /\ ~obs[p].mailed

\* C2 as amended: such an issue fails, inserts nothing and sends nothing; it
\* fails with RateLimited unless the signup check found the account
\* (AlreadyExists) or the quota query failed (StorageError).
C2_FullQuotaIssueFails ==
    \A p \in Procs :
        (DoneIssue(p) /\ Cardinality(PreActive(p)) = 3) =>
            /\ req[p].res \in {"RateLimited", "AlreadyExists", "StorageError"}
            /\ req[p].res = "AlreadyExists" =>
                  (req[p].purpose = "signup" /\ req[p].email \in users)
            /\ req[p].res = "StorageError" => (obs[p].failed /\ obs[p].counted = 0)
            /\ req[p].res = "RateLimited" => obs[p].counted >= 3
            /\ obs[p].inserted = 0
            /\ ~obs[p].mailed
            /\ otp_codes \subseteq obs[p].pre

\* the 4th issue for a reset pair after 3 that went through is RateLimited
C2_Witness ==
    \E p \in Procs :
        /\ DoneIssue(p)
        /\ req[p].purpose = "reset"
        /\ Cardinality(PreActive(p)) = 3
        /\ req[p].res = "RateLimited"

\* ---- C3 (SpecSeq)
\* C3: an issue evaluated with fewer than 3 active records, which no remote
\* failure and no existing account stops, succeeds and leaves exactly one
\* active record more.
C3_BelowQuotaIssueSucceeds ==
    \A p \in Procs :
        (/\ DoneIssue(p)
         /\ Cardinality(PreActive(p)) < 3
         /\ ~obs[p].failed
         /\ req[p].res # "AlreadyExists") =>
            /\ req[p].res = "Sent"
            /\ Cardinality(ActiveNow(req[p].email, req[p].purpose))
                  = Cardinality(PreActive(p)) + 1

\* ---- C4 (SpecQuotaRace)
\* C4: with NProcs issue requests for one pair interleaved, the pair never
\* has more than 3 + NProcs active records.
C4_AtMostThreePlusRacers ==
    Cardinality(ActiveNow(RaceEmail, RacePurpose)) <= 3 + NProcs

\* two requests are past the quota check and neither has inserted
C4_Witness ==
    \E p, q \in Procs :
        /\ p # q
        /\ pc[p] = "i_insert" /\ pc[q] = "i_insert"
        /\ obs[p].counted = 2 /\ obs[q].counted = 2

\* ---- C5 (SpecQuotaRace)
\* C5: the quota race is real: more than 3 active records arise, and they
\* arise only when a request passed the quota check while another request
\* past the check had not inserted yet.
C5_OverQuotaOnlyByRace ==
    Cardinality(ActiveNow(RaceEmail, RacePurpose)) > 3 => raced

\* both requests counted 2 rows, both inserted, and 4 records are active
C5_Witness ==
    /\ Cardinality(ActiveNow(RaceEmail, RacePurpose)) > 3
    /\ \E p, q \in Procs :
          /\ p # q
          /\ obs[p].counted = 2 /\ obs[q].counted = 2
          /\ obs[p].inserted # 0 /\ obs[q].inserted # 0

\* ---- C6 (SpecSeq)
\* the submitted code hashes to the code_hash of a most-recent active record
MatchesSomeLatest(p) ==
    \E r \in PreLatest(p) : r.code_hash = hashString(req[p].code)
MatchesEveryLatest(p) ==
    /\ PreLatest(p) # {}
    /\ \A r \in PreLatest(p) : r.code_hash = hashString(req[p].code)

\* C6 as claimed: verify succeeds if and only if the code matches the most
\* recent active record and the purpose is signup or reset (read in the
\* claim's favour: of the requests none of whose remote calls failed).
C6_Original ==
    \A p \in Procs :
        (DoneVerify(p) /\ ~obs[p].failed) =>
            ((req[p].res = "Success") <=>
                (MatchesSomeLatest(p) /\ req[p].purpose \in {"signup", "reset"}))

\* C6 as amended: verify succeeds only if the code matches a most recent
\* active record and the purpose is signup or reset; when it matches and no
\* remote call fails, verify succeeds unless a signup finds the account
\* existing (ProviderError) or a reset finds no account (NotFound).
C6_SuccessOnlyOnMatch ==
    \A p \in Procs :
        DoneVerify(p) =>
            /\ req[p].res = "Success" =>
                  (MatchesSomeLatest(p) /\ req[p].purpose \in {"signup", "reset"})
            /\ (/\ MatchesEveryLatest(p)
                /\ req[p].purpose \in {"signup", "reset"}
                /\ ~obs[p].failed) =>
                  \/ req[p].res = "Success"
                  \/ /\ req[p].purpose = "signup"
                     /\ req[p].res = "ProviderError"
                     /\ req[p].email \in users
                  \/ /\ req[p].purpose = "reset"
                     /\ req[p].res = "NotFound"
                     /\ req[p].email \notin users

\* a verify succeeded on the newer of two active records with different codes
C6_Witness ==
    \E p \in Procs :
        /\ DoneVerify(p)
        /\ req[p].res = "Success"
        /\ \E r \in PreActive(p) :
              /\ r \notin PreLatest(p)
              /\ r.code_hash # hashString(req[p].code)

\* ---- C7 (SpecSeq)
\* C7: when no record of the pair is active (every expiresAt has passed),
\* verify fails with InvalidOrExpired whatever the code, and calls the
\* Account Provider not at all.
C7_ExpiredNeverVerifies ==
    \A p \in Procs :
        (DoneVerify(p) /\ \A r \in PreRows(p) : r.expires_at <= req[p].now) =>
            /\ req[p].res = "InvalidOrExpired"
            /\ ~obs[p].provider

\* the correct code of an expired record was refused
C7_Witness ==
    \E p \in Procs :
        /\ DoneVerify(p)
        /\ req[p].res = "InvalidOrExpired"
        /\ PreRows(p) # {}
        /\ \A r \in PreRows(p) : r.expires_at < req[p].now
        /\ \E r \in PreRows(p) : r.code_hash = hashString(req[p].code)

\* ---- C8 (SpecRace)
\* C8: a code is one-time: no record is matched by two verify requests that
\* both return success.
C8_OneTime ==
    \A p, q \in Procs :
        (/\ p # q
         /\ DoneVerify(p) /\ req[p].res = "Success"
         /\ DoneVerify(q) /\ req[q].res = "Success") =>
            obs[p].matched # obs[q].matched

C10_SignupForAccountRefused ==
    \A p \in Procs :
        (DoneIssue(p) /\ req[p].purpose = "signup" /\ req[p].email \in users) =>
            /\ req[p].res = "AlreadyExists"
            /\ otp_codes = obs[p].pre
            /\ ~obs[p].mailed

\* ---- C11 (SpecRetry)
\* the verify in slot 2 follows a verify for the same pair, kept in slot 1,
\* that was answered InvalidCode; it submits the code of the most recent
\* record the wrong attempt was compared with, that record is unexpired, and
\* none of its remote calls fails
RetryAfterWrong ==
    /\ pc[1] = "done" /\ req[1].op = "verify" /\ req[1].res = "InvalidCode"
    /\ DoneVerify(2)
    /\ req[2].email = req[1].email /\ req[2].purpose = req[1].purpose
    /\ \A r \in PreLatest(1) :
          r.code_hash = hashString(req[2].code) /\ IsActive(r, req[2].now)
    /\ ~obs[2].failed

C12_VerifyOtherPurposeRejectedFirst ==
    \A p \in Procs :
        (DoneVerify(p) /\ req[p].purpose \notin {"signup", "reset"}) =>
            /\ req[p].res = "InvalidPurpose"
            /\ obs[p].matched = 0
            /\ otp_codes = obs[p].pre
            /\ ~obs[p].provider

\* ---- C13 (SpecPurpose)
\* C13: issue with a purpose other than signup or reset is rejected: no record
\* is deleted, counted or inserted and no code is sent.
C13_IssueOtherPurposeRejected ==
    \A p \in Procs :
        (DoneIssue(p) /\ req[p].purpose \notin {"signup", "reset"}) =>
            /\ req[p].res \notin {"Sent", "DeliveryError", "RateLimited", "StorageError"}
            /\ otp_codes = obs[p].pre
            /\ obs[p].counted = 0
            /\ obs[p].inserted = 0
            /\ ~obs[p].mailed

\* ---- C14 (SpecSeq)
\* the record that request p inserted is in the Store
InsertedRowStored(p) ==
    \E r \in otp_codes :
        /\ r.id = obs[p].inserted
        /\ r.email = req[p].email /\ r.purpose = req[p].purpose
        /\ r.code_hash = hashString(req[p].code)
        /\ r.expires_at = req[p].expiresAt

\* C14: an issue request sends the code only after its insert succeeded, a
\* failed insert yields StorageError and no send, and after DeliveryError the
\* record the request inserted is still in the Store.
C14_SendAfterInsertNoRollback ==
    \A p \in Procs :
        /\ obs[p].mailed => (obs[p].inserted # 0 /\ InsertedRowStored(p))
        /\ (DoneIssue(p) /\ obs[p].inserted = 0) =>
              (~obs[p].mailed /\ req[p].res \notin {"Sent", "DeliveryError"})
        /\ (DoneIssue(p) /\ obs[p].counted < MaxActive /\ obs[p].inserted = 0
              /\ req[p].res # "AlreadyExists") => req[p].res = "StorageError"
        /\ (DoneIssue(p) /\ req[p].res = "DeliveryError") => InsertedRowStored(p)

\* an issue was answered DeliveryError and its record is in the Store
C14_Witness ==
    \E p \in Procs :
        /\ DoneIssue(p)
        /\ req[p].res = "DeliveryError"
        /\ obs[p].mailed
        /\ InsertedRowStored(p)

\* ---- C15 (SpecSeq)
\* C15: verify compares the code only with an active record of greatest
\* expiresAt.  Unless the lookup fails, a code that is not the code of such a
\* record is answered InvalidCode, also when it is the code of an older active
\* record, and the code of the newest record is matched with that record.
C15_OnlyLatestCompared ==
    \A p \in Procs :
        DoneVerify(p) =>
            /\ obs[p].matched # 0 => \E r \in PreLatest(p) : r.id = obs[p].matched
            /\ (PreLatest(p) # {} /\ ~MatchesSomeLatest(p) /\ ~obs[p].failed) =>
                  req[p].res = "InvalidCode"
            /\ MatchesEveryLatest(p) =>
                  \/ obs[p].matched # 0
                  \/ obs[p].failed /\ req[p].res = "InvalidOrExpired"

\* the code of the older of two active records was answered InvalidCode
C15_Witness ==
    \E p \in Procs :
        /\ DoneVerify(p)
        /\ req[p].res = "InvalidCode"
        /\ \E r \in PreActive(p) \ PreLatest(p) : r.code_hash = hashString(req[p].code)

\* ---- C16 (SpecSeq)
\* the outcomes of verify on which the handler deletes the pair's records
DeletingOutcome(p) ==
    \/ req[p].res = "InvalidOrExpired"
    \/ req[p].purpose = "reset" /\ req[p].res \in {"NotFound", "Success"}

\* C16: on every other outcome of verify the Store is as it was when the
\* request started; a record that was matched is still there.
C16_VerifyFrame ==
    \A p \in Procs :
        (DoneVerify(p) /\ ~DeletingOutcome(p)) =>
            /\ otp_codes = obs[p].pre
            /\ obs[p].matched # 0 => \E r \in otp_codes : r.id = obs[p].matched

\* a signup verify matched a record, the Account Provider failed, and the
\* Store holds the record and is as it was
C16_Witness ==
    \E p \in Procs :
        /\ DoneVerify(p)
        /\ req[p].purpose = "signup"
        /\ req[p].res = "ProviderError"
        /\ pc[p] = "done" /\ obs[p].failed
        /\ \E r \in otp_codes : r.id = obs[p].matched /\ IsActive(r, clock)
        /\ otp_codes = obs[p].pre

\* ---- C17 (SpecSeq)
\* C17: a verify one of whose remote calls (the Store lookup, or an Account
\* Provider call) failed ends with StorageError or ProviderError, never with
\* InvalidOrExpired or NotFound.
C17_VerifyFailuresSurfaced ==
    \A p \in Procs :
        (DoneVerify(p) /\ obs[p].failed) =>
            req[p].res \in {"StorageError", "ProviderError"}

\* ---- C18 (SpecSeq)
\* C18: the quota query counts exactly the records that the lookup of verify
\* would treat as active at the same now, those with expiresAt strictly after
\* now: the number an issue counted is the number of records of its pair that
\* were active when it started.
C18_SameActiveness ==
    \A p \in Procs :
        (DoneIssue(p) /\ ~obs[p].failed /\ req[p].res # "AlreadyExists") =>
            /\ obs[p].counted = Cardinality(PreActive(p))
            /\ CountedGte(req[p].email, req[p].purpose, req[p].now)
                  = ActiveGt(req[p].email, req[p].purpose, req[p].now)

\* ---- C19 (SpecSeq)
\* the number of records of request p's pair that the quota query counts
\* whether or not the cleanup removed the expired ones: those that expire at
\* now or later
PreCounted(p) == Cardinality({r \in PreRows(p) : r.expires_at >= req[p].now})

\* C19: a failed cleanup is not surfaced and aborts nothing: an issue ends
\* with StorageError only when its quota query or its insert failed, and
\* otherwise its result and its insert are what the records found decide,
\* whatever the cleanup did: RateLimited and no insert when 3 or more records
\* are counted, an insert and the answer of the send when fewer are.
C19_CleanupFailureNotSurfaced ==
    \A p \in Procs :
        (DoneIssue(p) /\ req[p].res # "AlreadyExists") =>
            /\ (req[p].res = "StorageError") <=> obs[p].dbFailed
            /\ obs[p].inserted = 0 <=> req[p].res \in {"RateLimited", "StorageError"}
            /\ ~obs[p].dbFailed =>
                  /\ obs[p].counted = PreCounted(p)
                  /\ IF PreCounted(p) >= MaxActive
                     THEN req[p].res = "RateLimited"
                     ELSE req[p].res \in {"Sent", "DeliveryError"}

\* the cleanup of an issue failed, for an expired record of the pair is still
\* in the Store, and the issue went through
C19_Witness ==
    \E p \in Procs :
        /\ DoneIssue(p)
        /\ req[p].res = "Sent"
        /\ obs[p].failed
        /\ \E r \in otp_codes :
              /\ r.email = req[p].email /\ r.purpose = req[p].purpose
              /\ r.expires_at < req[p].now

\* ---- C20 (SpecRace)
\* C20: the delete on the InvalidOrExpired path of verify removes no record
\* that is active when it is removed, whatever issue request is interleaved.
C20_MissDeleteSparesActive ==
    [][\A p \in Procs :
          VerifyDeleteMiss(p) => \A r \in otp_codes \ otp_codes' : ~IsActive(r, clock)]_vars
====
